---- MODULE Spec2Model ----
(***************************************************************************)
(* Model of the cron harness of python_tools:                              *)
(*   - the alert channels (AlertSystem, SlackAlertSystem,                  *)
(*     DataLoopAlertSystem) and the router CronBase.send_alert,            *)
(*   - the job lifecycle CronBase.run,                                     *)
(*   - the retry decorator bi.utils.retry.retry.                           *)
(* Python values that cross the alert interface are modelled as records of *)
(* one shape (PyValue) so that strings, JSON text, mappings and None can   *)
(* be told apart.                                                          *)
(***************************************************************************)
EXTENDS Integers, Sequences, FiniteSets, TLC

VARIABLES
    alert_systems,  \* CronBase.alert_systems: channels in registration order
    last,           \* the most recent CronBase.send_alert call and what it did
    pc,             \* position of CronBase.run
    events,         \* the send_alert calls made by run itself, in order
    body,           \* how far cron_process got, and the error it raised
    exit_status,    \* <<>> while the process lives, <<code>> after sys.exit
    run_raised,     \* the error that escaped run, NoError if none
    db_held,        \* DataLoopAlertSystem.db holds a connection that is open
    r_cfg,          \* retry(...) arguments of the decorated function
    r_pc,           \* position of f_retry
    remaining_tries,
    next_delay,
    last_exception,
    r_attempts,     \* calls of f made by the current f_retry call
    r_sleeps,       \* time.sleep arguments of the current call, in order
    r_callbacks,    \* exception_callback invocations of the current call
    r_result,       \* outcome of the finished f_retry call
    r_calls         \* finished calls of the decorated function

alertVars == <<alert_systems, last, pc, events, body, exit_status, run_raised,
               db_held>>
retryVars == <<r_cfg, r_pc, remaining_tries, next_delay, last_exception,
               r_attempts, r_sleeps, r_callbacks, r_result, r_calls>>
vars == <<alertVars, retryVars>>

---------------------------------------------------------------------------
(* Bounds *)

\* longest list handed to set_monitored_levels
MaxLevels == 1

\* largest value of the tries argument of retry
MaxTries == 3

\* calls of the decorated function in one behaviour
MaxCalls == 2

---------------------------------------------------------------------------
(* Generic helpers *)

InSeq(x, s) == \E i \in 1..Len(s) : s[i] = x

Range(s) == {s[i] : i \in 1..Len(s)}

SeqsUpTo(S, n) == UNION {[1..k -> S] : k \in 0..n}

RECURSIVE Pow(_, _)
Pow(b, n) == IF n = 0 THEN 1 ELSE b * Pow(b, n - 1)

---------------------------------------------------------------------------
(* Errors: kind is type(e).__name__, message is str(e) *)

NoError == [kind |-> "", message |-> ""]

Error(kind, message) == [kind |-> kind, message |-> message]

---------------------------------------------------------------------------
(* Python values crossing the alert interface *)

PyNone == [tag |-> "none", s |-> "", fields |-> <<>>, hasTb |-> FALSE,
           tb |-> <<>>, of |-> ""]

\* a str holding plain text
PyStr(s) == [PyNone EXCEPT !.tag = "str", !.s = s]

\* a dict: the non-traceback items in insertion order, and the traceback list
PyDict(fields, hasTb, tb) ==
    [PyNone EXCEPT !.tag = "dict", !.fields = fields, !.hasTb = hasTb, !.tb = tb]

isinstance_str(v) == v.tag = "str"

\* json.dumps(v): a str whose text is the JSON encoding of v
json_dumps(v) == [v EXCEPT !.tag = "str", !.of = v.tag]

\* the str holds JSON text (json.loads accepts it)
json_valid(s) == s.tag = "str" /\ s.of # ""

json_loads(s) == [s EXCEPT !.tag = s.of, !.of = ""]

\* Python truth value
Truthy(v) ==
    CASE v.tag = "none" -> FALSE
      [] v.tag = "str"  -> v.s # "" \/ v.of # ""
      [] v.tag = "dict" -> v.fields # <<>> \/ v.hasTb
      [] OTHER          -> TRUE

---------------------------------------------------------------------------
(* Alert channels: AlertSystem and its two subclasses *)

\* the default of AlertSystem.__init__'s levels argument
DefaultLevels == <<"SUCCESS", "WARNING", "FAILURE">>

\* level names a caller may pass; CRITICAL is not a supported level
LevelNames == {"SUCCESS", "WARNING", "FAILURE", "CRITICAL"}

\* AlertSystem.__init__
AlertSystem_init(name, class, env_name) ==
    [name |-> name, class |-> class, env_name |-> env_name,
     levels |-> DefaultLevels, monitored_levels |-> DefaultLevels,
     requested |-> DefaultLevels]

\* a mutant that keeps the list as given
set_monitored_levels_unfiltered(self, new_levels) ==
    [self EXCEPT !.monitored_levels = new_levels, !.requested = new_levels]

\* AlertSystem.set_monitored_levels; requested is a history field that keeps
\* the list the call was given
set_monitored_levels(self, new_levels) ==
    [self EXCEPT !.monitored_levels =
                     SelectSeq(new_levels, LAMBDA level : InSeq(level, self.levels)),
                 !.requested = new_levels]

\* a mutant that leaves the Slack channel monitoring every level
SlackAlertSystem_init_all(name, env_name) ==
    AlertSystem_init(name, "SlackAlertSystem", env_name)

\* SlackAlertSystem.__init__
SlackAlertSystem_init(name, env_name) ==
    set_monitored_levels(AlertSystem_init(name, "SlackAlertSystem", env_name),
                         <<"WARNING", "FAILURE">>)

\* DataLoopAlertSystem.__init__
DataLoopAlertSystem_init(name, env_name) ==
    AlertSystem_init(name, "DataLoopAlertSystem", env_name)

\* SlackAlertSystem.colors
colors(level) ==
    CASE level = "SUCCESS" -> "good"
      [] level = "WARNING" -> "warning"
      [] level = "FAILURE" -> "danger"

\* a mutant whose codes start at 1
status_codes_from_one(level) ==
    CASE level = "SUCCESS" -> 1
      [] level = "WARNING" -> 2
      [] level = "FAILURE" -> 3

\* DataLoopAlertSystem.status_codes
status_codes(level) ==
    CASE level = "SUCCESS" -> 0
      [] level = "WARNING" -> 1
      [] level = "FAILURE" -> 2

\* SlackAlertSystem.append_field
append_field(field_collection, field_name, field_value) ==
    Append(field_collection,
           [title |-> field_name, value |-> field_value, short |-> TRUE])

RECURSIVE AppendItems(_, _)
\* the loop over additional_data.keys() that skips 'traceback'
AppendItems(field_collection, items) ==
    IF items = <<>> THEN field_collection
    ELSE AppendItems(append_field(field_collection, items[1][1], items[1][2]),
                     Tail(items))

\* the code fence of the Slack text block: stands for three backquotes, which
\* cannot be written in a TLA+ string
CodeFence == "~~~"

RECURSIVE Join_unseparated(_, _)
\* a mutant that concatenates the lines without the separator
Join_unseparated(sep, lines) ==
    IF lines = <<>> THEN ""
    ELSE lines[1] \o Join_unseparated(sep, Tail(lines))

RECURSIVE Join(_, _)
\* sep.join(lines)
Join(sep, lines) ==
    IF lines = <<>> THEN ""
    ELSE IF Len(lines) = 1 THEN lines[1]
    ELSE lines[1] \o sep \o Join(sep, Tail(lines))

\* one outbound operation of a delivery: "post", "connect" or "insert", the
\* HTTP status a post was answered with (0 for a database operation) and the
\* error the database client raised (NoError if none)
Io(op, status, error) == [op |-> op, status |-> status, error |-> error]

\* what one send_alert_internal call did: the messages posted, the
\* connections opened, the rows inserted, its outbound operations in order,
\* and the error it raised (NoError when it returned)
Delivery(posts, connects, rows, io, raised) ==
    [posts |-> posts, connects |-> connects, rows |-> rows, io |-> io,
     raised |-> raised]

\* the errors pymysql raises when the connection or the statement fails
ConnectError == Error("OperationalError", "connect")

ExecuteError == Error("ProgrammingError", "execute")

\* a mutant that takes every answer of the endpoint as a success
raise_for_status_never(status_code) == NoError

\* 'if result.status_code != 200: raise CronException(...)'
raise_for_status(status_code) ==
    IF status_code # 200
    THEN Error("CronException", "Failure sending Slack Alert.")
    ELSE NoError

\* the HTTP status the endpoint answers with and what the database does; the
\* endpoint's answer is varied only while the database works
Environments ==
    { e \in [http_status : {200, 500},
             db : {"ok", "connect_error", "execute_error"}] :
        e.db # "ok" => e.http_status = 200 }

\* SlackAlertSystem.send_alert_internal
Slack_send_alert_internal(self, klass, level, title, raw_additional_data, env) ==
    LET fields0 == append_field(append_field(append_field(<<>>,
                       "source", klass), "level", level), "env", self.env_name)
        parsed  == Truthy(raw_additional_data)
    IN  IF parsed /\ ~json_valid(raw_additional_data)
        THEN Delivery(<<>>, 0, <<>>, <<>>,
                      Error("JSONDecodeError", "Expecting value"))
        ELSE
        LET additional_data == IF parsed THEN json_loads(raw_additional_data)
                               ELSE PyNone
            expand == parsed /\ Truthy(additional_data)
        IN  IF expand /\ ~additional_data.hasTb
            THEN Delivery(<<>>, 0, <<>>, <<>>, Error("KeyError", "'traceback'"))
            ELSE
            LET msg == [title  |-> level \o ": " \o title,
                        color  |-> colors(level),
                        fields |-> IF expand
                                   THEN AppendItems(fields0, additional_data.fields)
                                   ELSE fields0,
                        has_text |-> expand,
                        text   |-> IF expand
                                   THEN CodeFence \o Join("\n", additional_data.tb) \o CodeFence
                                   ELSE ""]
            IN  Delivery(<<msg>>, 0, <<>>,
                         <<Io("post", env.http_status, NoError)>>,
                         raise_for_status(env.http_status))

\* DataLoopAlertSystem.send_alert_internal (with connect_to_database)
DataLoop_send_alert_internal(self, klass, level, title, additional_data, env) ==
    LET attributes == [source |-> klass, status |-> status_codes(level),
                       err_msg |-> title, err_additional |-> additional_data,
                       env |-> self.env_name]
    IN  CASE env.db = "connect_error" ->
               Delivery(<<>>, 0, <<>>, <<Io("connect", 0, ConnectError)>>,
                        ConnectError)
          [] env.db = "execute_error" ->
               Delivery(<<>>, 1, <<>>,
                        <<Io("connect", 0, NoError), Io("insert", 0, ExecuteError)>>,
                        ExecuteError)
          [] OTHER ->
               Delivery(<<>>, 1, <<attributes>>,
                        <<Io("connect", 0, NoError), Io("insert", 0, NoError)>>,
                        NoError)

\* the subclass override that self.send_alert_internal resolves to
send_alert_internal(self, klass, level, title, additional_data, env) ==
    IF self.class = "SlackAlertSystem"
    THEN Slack_send_alert_internal(self, klass, level, title, additional_data, env)
    ELSE DataLoop_send_alert_internal(self, klass, level, title, additional_data, env)

\* the record of one send_alert_internal call
DeliveryCall(self, klass, level, title, additional_data, env) ==
    [channel |-> self.name, klass |-> klass, level |-> level, title |-> title,
     additional_data |-> additional_data,
     did |-> send_alert_internal(self, klass, level, title, additional_data, env)]

\* a mutant without the test of the monitored levels
AlertSystem_send_alert_unmonitored(self, klass, level, title, additional_data, env) ==
    IF ~InSeq(level, self.levels) THEN <<>>
    ELSE <<DeliveryCall(self, klass, level, title, additional_data, env)>>

\* AlertSystem.send_alert: the delivery calls it makes (none or one)
AlertSystem_send_alert(self, klass, level, title, additional_data, env) ==
    IF ~InSeq(level, self.levels) THEN <<>>
    ELSE IF ~InSeq(level, self.monitored_levels) THEN <<>>
    ELSE <<DeliveryCall(self, klass, level, title, additional_data, env)>>

---------------------------------------------------------------------------
(* CronBase: registration and the router *)

\* self.__class__.__name__ of the job, and the configured environment name
JobClass == "CronJob"

EnvName == "prod"

\* names set_alert_levels may be called with; "email" is never registered
SystemNames == {"bi_alerts", "slack", "email"}

IsRegistered(systems, system_name) ==
    \E i \in 1..Len(systems) : systems[i].name = system_name

\* CronBase.add_alert_system: a dict assignment keeps the position of a key
\* that exists and appends a new key
add_alert_system(systems, system_name, alert_obj) ==
    IF IsRegistered(systems, system_name)
    THEN [i \in 1..Len(systems) |->
            IF systems[i].name = system_name THEN alert_obj ELSE systems[i]]
    ELSE Append(systems, alert_obj)

\* CronBase.setup_bi_alerts
setup_bi_alerts(systems, configured) ==
    IF configured
    THEN add_alert_system(systems, "bi_alerts",
                          DataLoopAlertSystem_init("bi_alerts", EnvName))
    ELSE systems

\* CronBase.setup_slack_alerts
setup_slack_alerts(systems, configured) ==
    IF configured
    THEN add_alert_system(systems, "slack", SlackAlertSystem_init("slack", EnvName))
    ELSE systems

\* CronBase.__init__, alerts section
CronBase_init(has_bi_alerts, has_slack) ==
    setup_slack_alerts(setup_bi_alerts(<<>>, has_bi_alerts), has_slack)

\* a mutant that sets the monitored levels of every registered channel
set_alert_levels_all(systems, alert_system, monitored_levels) ==
    [i \in 1..Len(systems) |-> set_monitored_levels(systems[i], monitored_levels)]

\* CronBase.set_alert_levels
set_alert_levels(systems, alert_system, monitored_levels) ==
    [i \in 1..Len(systems) |->
        IF systems[i].name = alert_system
        THEN set_monitored_levels(systems[i], monitored_levels)
        ELSE systems[i]]

\* CronBase.build_descriptive
build_descriptive == "CronBase processing"

RECURSIVE FanOut_isolated(_, _, _, _, _, _)
\* a mutant that catches the error of a delivery and goes on
FanOut_isolated(systems, klass, level, full_title, additional_data, env) ==
    IF systems = <<>> THEN <<>>
    ELSE AlertSystem_send_alert(Head(systems), klass, level, full_title,
                                additional_data, env)
         \o FanOut_isolated(Tail(systems), klass, level, full_title,
                            additional_data, env)

RECURSIVE FanOut(_, _, _, _, _, _)
\* the loop of CronBase.send_alert over self.alert_systems.values(): the
\* delivery calls made, in order; an error raised by a delivery ends the loop
FanOut(systems, klass, level, full_title, additional_data, env) ==
    IF systems = <<>> THEN <<>>
    ELSE LET made == AlertSystem_send_alert(Head(systems), klass, level,
                                            full_title, additional_data, env)
         IN  IF made # <<>> /\ made[1].did.raised # NoError
             THEN made
             ELSE made \o FanOut(Tail(systems), klass, level, full_title,
                                 additional_data, env)

\* a mutant that hands the caller a CronException in place of the error of
\* the delivery
RaisedBy_wrapped(calls) ==
    IF calls = <<>> \/ calls[Len(calls)].did.raised = NoError THEN NoError
    ELSE Error("CronException", calls[Len(calls)].did.raised.message)

\* the error a sequence of delivery calls ended with
RaisedBy(calls) ==
    IF calls = <<>> THEN NoError ELSE calls[Len(calls)].did.raised

\* a mutant that hands the channels the detail as it was given
CronBase_send_alert_raw(systems, level, title, additional_data, env) ==
    LET full_title == build_descriptive \o ": " \o title
        head == [level |-> level, title |-> title, detail |-> additional_data]
        calls == FanOut(systems, JobClass, level, full_title, additional_data, env)
    IN  [head |-> head, calls |-> calls, raised |-> RaisedBy(calls)]

\* CronBase.send_alert: what one dispatch was called with and what it did
CronBase_send_alert(systems, level, title, additional_data, env) ==
    LET full_title == build_descriptive \o ": " \o title
        head == [level |-> level, title |-> title, detail |-> additional_data]
        data  == IF isinstance_str(additional_data) THEN additional_data
                 ELSE json_dumps(additional_data)
        calls == FanOut(systems, JobClass, level, full_title, data, env)
    IN  [head |-> head, calls |-> calls, raised |-> RaisedBy(calls)]

---------------------------------------------------------------------------
(* CronBase.run and the callers of the alert interface *)

\* the details an ad hoc alert is sent with: None, a str of plain text or a
\* dict json.dumps can encode
Details ==
    { PyNone, PyStr("note"),
      PyDict(<<>>, FALSE, <<>>),
      PyDict(<< <<"foo", "bar">> >>, FALSE, <<>>),
      PyDict(<< <<"foo", "bar">> >>, TRUE, <<"l1", "l2">>) }

\* errors a job body raises (subclasses of Exception)
BodyErrors ==
    { Error("CronException", "boom"), Error("ValueError", "bad value"),
      Error("KeyError", "'traceback'") }

\* exit codes a job body requests through sys.exit
BodyExitCodes == {0, 1, 3}

\* platform.node() and platform.system()
Host == "cronhost"

Os == "Linux"

\* traceback.format_list(traceback.extract_tb(error_tb))
format_traceback(error) == <<"File job.py, in run", "raise " \o error.kind>>

\* a mutant that names the type of the exception class
build_error_output_type_of_class(error) ==
    PyDict(<< <<"type", "type">>, <<"value", error.message>>,
              <<"host", Host>>, <<"os", Os>> >>,
           TRUE, format_traceback(error))

\* CronBase.build_error_output for the error being handled
build_error_output(error) ==
    PyDict(<< <<"type", error.kind>>, <<"value", error.message>>,
              <<"host", Host>>, <<"os", Os>> >>,
           TRUE, format_traceback(error))

\* DataLoopAlertSystem.connect_to_database assigns the new connection to
\* self.db and nothing closes it: the channel holds an open connection once
\* a connect of one of the dispatches succeeded
ConnectionHeld(held, dispatches) ==
    \/ held
    \/ \E n \in 1..Len(dispatches) : \E k \in 1..Len(dispatches[n].calls) :
          dispatches[n].calls[k].did.connects > 0

NoDispatch ==
    [head |-> [level |-> "", title |-> "", detail |-> PyNone],
     calls |-> <<>>, raised |-> NoError]

\* a mutant whose except clause exits with code 0
FailurePath_exit_zero(sent, error, env) ==
    LET d == CronBase_send_alert(alert_systems, "FAILURE", "Failure during Job",
                                 build_error_output(error), env)
    IN  /\ events' = Append(sent, d)
        /\ IF d.raised = NoError
           THEN pc' = "FAILED" /\ exit_status' = <<0>> /\ run_raised' = NoError
           ELSE pc' = "ESCAPED" /\ exit_status' = <<>> /\ run_raised' = d.raised

\* the except clause of run: the FAILURE dispatch and what follows it
FailurePath(sent, error, env) ==
    LET d == CronBase_send_alert(alert_systems, "FAILURE", "Failure during Job",
                                 build_error_output(error), env)
    IN  /\ events' = Append(sent, d)
        /\ IF d.raised = NoError
           THEN pc' = "FAILED" /\ exit_status' = <<1>> /\ run_raised' = NoError
           ELSE pc' = "ESCAPED" /\ exit_status' = <<>> /\ run_raised' = d.raised

\* a mutant that goes on to the job body whatever the START dispatch raised
RunStart_ignores_error(env, env2) ==
    /\ pc = "NOT_STARTED"
    /\ events' = Append(events, CronBase_send_alert(alert_systems, "SUCCESS",
                                                    "Job START", PyNone, env))
    /\ pc' = "RUNNING"
    /\ body' = [state |-> "running", error |-> NoError]
    /\ db_held' = ConnectionHeld(db_held, events')
    /\ UNCHANGED <<exit_status, run_raised, alert_systems, last, retryVars>>

\* run up to the call of cron_process
RunStart(env, env2) ==
    /\ pc = "NOT_STARTED"
    /\ LET d == CronBase_send_alert(alert_systems, "SUCCESS", "Job START",
                                    PyNone, env)
       IN  IF d.raised = NoError
           THEN /\ events' = Append(events, d)
                /\ pc' = "RUNNING"
                /\ body' = [state |-> "running", error |-> NoError]
                /\ UNCHANGED <<exit_status, run_raised>>
           ELSE /\ FailurePath(Append(events, d), d.raised, env2)
                /\ UNCHANGED body
    /\ db_held' = ConnectionHeld(db_held, events')
    /\ UNCHANGED <<alert_systems, last, retryVars>>

\* a mutant that exits without the FINAL alert
BodyReturn_no_final(env, env2) ==
    /\ pc = "RUNNING"
    /\ pc' = "SUCCEEDED"
    /\ exit_status' = <<0>>
    /\ body' = [state |-> "returned", error |-> NoError]
    /\ UNCHANGED <<alert_systems, last, events, run_raised, db_held, retryVars>>

\* cron_process returns: run from there to its end
BodyReturn(env, env2) ==
    /\ pc = "RUNNING"
    /\ LET d == CronBase_send_alert(alert_systems, "SUCCESS", "Job FINAL",
                                    PyNone, env)
       IN  IF d.raised = NoError
           THEN /\ events' = Append(events, d)
                /\ pc' = "SUCCEEDED"
                /\ exit_status' = <<0>>
                /\ UNCHANGED run_raised
           ELSE FailurePath(Append(events, d), d.raised, env2)
    /\ body' = [state |-> "returned", error |-> NoError]
    /\ db_held' = ConnectionHeld(db_held, events')
    /\ UNCHANGED <<alert_systems, last, retryVars>>

\* cron_process raises an Exception: run from there to its end
BodyRaise(error, env) ==
    /\ pc = "RUNNING"
    /\ FailurePath(events, error, env)
    /\ body' = [state |-> "raised", error |-> error]
    /\ db_held' = ConnectionHeld(db_held, events')
    /\ UNCHANGED <<alert_systems, last, retryVars>>

\* a mutant whose except clause catches SystemExit and exits with code 1
BodyExit_caught(code) ==
    /\ pc = "RUNNING"
    /\ pc' = "FAILED"
    /\ exit_status' = <<1>>
    /\ body' = [state |-> "exited", error |-> Error("SystemExit", ToString(code))]
    /\ UNCHANGED <<alert_systems, last, events, run_raised, db_held, retryVars>>

\* cron_process raises SystemExit(code): 'except Exception' does not catch
\* it and the process exits with the code
BodyExit(code) ==
    /\ pc = "RUNNING"
    /\ pc' = "EXITED"
    /\ exit_status' = <<code>>
    /\ body' = [state |-> "exited", error |-> Error("SystemExit", ToString(code))]
    /\ UNCHANGED <<alert_systems, last, events, run_raised, db_held, retryVars>>

\* cron_process raises KeyboardInterrupt: 'except Exception' does not catch
\* it, it leaves run and run sets no exit code
BodyInterrupt ==
    /\ pc = "RUNNING"
    /\ pc' = "ESCAPED"
    /\ run_raised' = Error("KeyboardInterrupt", "")
    /\ body' = [state |-> "interrupted", error |-> Error("KeyboardInterrupt", "")]
    /\ UNCHANGED <<alert_systems, last, events, exit_status, db_held, retryVars>>

\* a call of CronBase.set_alert_levels, before run or from the job body
SetAlertLevels(alert_system, monitored_levels) ==
    /\ pc \in {"NOT_STARTED", "RUNNING"}
    /\ alert_systems' = set_alert_levels(alert_systems, alert_system, monitored_levels)
    /\ UNCHANGED <<last, pc, events, body, exit_status, run_raised, db_held,
                   retryVars>>

\* for each registered channel, whether it supports and monitors the level
\* at the time of a dispatch (history kept with the dispatch)
FilterOf(systems, level) ==
    [i \in 1..Len(systems) |->
        [name |-> systems[i].name,
         supports |-> InSeq(level, systems[i].levels),
         monitors |-> InSeq(level, systems[i].monitored_levels)]]

\* an ad hoc call of CronBase.send_alert, before run or from the job body
SendAlert(level, additional_data, env) ==
    /\ pc \in {"NOT_STARTED", "RUNNING"}
    /\ last' = [filter |-> FilterOf(alert_systems, level),
                d |-> CronBase_send_alert(alert_systems, level, "adhoc",
                                          additional_data, env)]
    /\ db_held' = ConnectionHeld(db_held, <<last'.d>>)
    /\ UNCHANGED <<alert_systems, pc, events, body, exit_status, run_raised,
                   retryVars>>

\* the state after CronBase.__init__
Constructed(has_bi_alerts, has_slack) ==
    /\ alert_systems = CronBase_init(has_bi_alerts, has_slack)
    /\ last = [filter |-> <<>>, d |-> NoDispatch]
    /\ pc = "NOT_STARTED"
    /\ events = <<>>
    /\ body = [state |-> "not_run", error |-> NoError]
    /\ exit_status = <<>>
    /\ run_raised = NoError
    /\ db_held = FALSE

---------------------------------------------------------------------------
(* bi.utils.retry.retry *)

\* exceptions_to_retry: the error types the decorator was given
exceptions_to_retry == {"ConnectionError", "TimeoutError"}

\* errors the decorated function f raises
OperationErrors ==
    { Error("ConnectionError", "refused"), Error("TimeoutError", "timed out"),
      Error("ValueError", "bad value") }

\* values the decorated function f returns
OperationResults == {"rows", "page"}

\* a mutant that catches every error
Matches_any(e) == TRUE

\* the except clause 'except exceptions_to_retry as e' catches e
Matches(e) == e.kind \in exceptions_to_retry

\* the arguments the decorator is built with
RetryConfigs ==
    [tries : 0..MaxTries, delay : {1, 5}, backoff : {2, 3},
     has_callback : BOOLEAN]

NoResult == [kind |-> "none", value |-> "", error |-> NoError]

Returned(value) == [kind |-> "returned", value |-> value, error |-> NoError]

Raised(error) == [kind |-> "raised", value |-> "", error |-> error]

\* a mutant that wraps the error in an error of its own
raise_last_exception_wrapped(e) ==
    Raised(Error("RetryError", e.message))

\* 'raise last_exception': raising None is a TypeError
raise_last_exception(e) ==
    IF e = NoError
    THEN Raised(Error("TypeError", "exceptions must derive from BaseException"))
    ELSE Raised(e)

\* a mutant that adds the backoff
backoff_delay_added(delay, backoff) == delay + backoff

\* next_delay *= backoff
backoff_delay(delay, backoff) == delay * backoff

\* a mutant that skips the callback when no attempt is left
call_callback_not_last(has_callback, callbacks, e, remaining, delay, attempts, sleeps) ==
    IF has_callback /\ remaining > 1
    THEN Append(callbacks, [error |-> e, remaining_tries |-> remaining,
                            next_delay |-> delay, attempts |-> attempts,
                            sleeps |-> sleeps])
    ELSE callbacks

\* 'if exception_callback: exception_callback(e, remaining_tries, next_delay)';
\* attempts and sleeps are the calls of f and of time.sleep made so far
call_callback(has_callback, callbacks, e, remaining, delay, attempts, sleeps) ==
    IF has_callback
    THEN Append(callbacks, [error |-> e, remaining_tries |-> remaining,
                            next_delay |-> delay, attempts |-> attempts,
                            sleeps |-> sleeps])
    ELSE callbacks

\* the test of 'while remaining_tries > 0' and the raise after the loop
LoopTest(remaining, e) ==
    IF remaining > 0
    THEN r_pc' = "loop" /\ r_result' = NoResult
    ELSE r_pc' = "done" /\ r_result' = raise_last_exception(e)

\* a mutant whose retry state outlives the call: only the first call sets
\* remaining_tries and next_delay
RetryCall_keeps_state ==
    /\ r_pc \in {"idle", "done"}
    /\ r_calls < MaxCalls
    /\ r_calls' = r_calls + 1
    /\ last_exception' = NoError
    /\ remaining_tries' = IF r_calls = 0 THEN r_cfg.tries ELSE remaining_tries
    /\ next_delay' = IF r_calls = 0 THEN r_cfg.delay ELSE next_delay
    /\ r_attempts' = <<>>
    /\ r_sleeps' = <<>>
    /\ r_callbacks' = <<>>
    /\ LoopTest(remaining_tries', NoError)
    /\ UNCHANGED <<r_cfg, alertVars>>

\* f_retry is called: the assignments before the loop and the first loop test
RetryCall ==
    /\ r_pc \in {"idle", "done"}
    /\ r_calls < MaxCalls
    /\ r_calls' = r_calls + 1
    /\ last_exception' = NoError
    /\ remaining_tries' = r_cfg.tries
    /\ next_delay' = r_cfg.delay
    /\ r_attempts' = <<>>
    /\ r_sleeps' = <<>>
    /\ r_callbacks' = <<>>
    /\ LoopTest(r_cfg.tries, NoError)
    /\ UNCHANGED <<r_cfg, alertVars>>

\* a mutant that keeps the value and goes round the loop again
AttemptReturns_no_return(value) ==
    /\ r_pc = "loop"
    /\ r_attempts' = Append(r_attempts, Returned(value))
    /\ remaining_tries' = remaining_tries - 1
    /\ LoopTest(remaining_tries - 1, last_exception)
    /\ UNCHANGED <<r_cfg, next_delay, last_exception,
                   r_sleeps, r_callbacks, r_calls, alertVars>>

\* f returns: f_retry returns its value
AttemptReturns(value) ==
    /\ r_pc = "loop"
    /\ r_attempts' = Append(r_attempts, Returned(value))
    /\ r_pc' = "done"
    /\ r_result' = Returned(value)
    /\ UNCHANGED <<r_cfg, remaining_tries, next_delay, last_exception,
                   r_sleeps, r_callbacks, r_calls, alertVars>>

\* a mutant that decrements remaining_tries and multiplies next_delay before
\* the callback and the sleep
AttemptRaisesMatching_update_first(e) ==
    /\ r_pc = "loop"
    /\ Matches(e)
    /\ r_attempts' = Append(r_attempts, Raised(e))
    /\ remaining_tries' = remaining_tries - 1
    /\ next_delay' = backoff_delay(next_delay, r_cfg.backoff)
    /\ r_callbacks' = call_callback(r_cfg.has_callback, r_callbacks, e,
                                    remaining_tries', next_delay',
                                    Len(r_attempts) + 1, Len(r_sleeps))
    /\ r_sleeps' = Append(r_sleeps, next_delay')
    /\ last_exception' = e
    /\ LoopTest(remaining_tries - 1, e)
    /\ UNCHANGED <<r_cfg, r_calls, alertVars>>

\* f raises an error the except clause catches: the except body and the
\* next loop test
AttemptRaisesMatching(e) ==
    /\ r_pc = "loop"
    /\ Matches(e)
    /\ r_attempts' = Append(r_attempts, Raised(e))
    /\ r_callbacks' = call_callback(r_cfg.has_callback, r_callbacks, e,
                                    remaining_tries, next_delay,
                                    Len(r_attempts) + 1, Len(r_sleeps))
    /\ r_sleeps' = Append(r_sleeps, next_delay)
    /\ remaining_tries' = remaining_tries - 1
    /\ next_delay' = backoff_delay(next_delay, r_cfg.backoff)
    /\ last_exception' = e
    /\ LoopTest(remaining_tries - 1, e)
    /\ UNCHANGED <<r_cfg, r_calls, alertVars>>

\* f raises an error the except clause does not catch: it leaves f_retry
AttemptRaisesOther(e) ==
    /\ r_pc = "loop"
    /\ ~Matches(e)
    /\ r_attempts' = Append(r_attempts, Raised(e))
    /\ r_pc' = "done"
    /\ r_result' = Raised(e)
    /\ UNCHANGED <<r_cfg, remaining_tries, next_delay, last_exception,
                   r_sleeps, r_callbacks, r_calls, alertVars>>

\* the defaults of retry: tries=3, delay=5, backoff=2
DefaultRetryConfig == [tries |-> 3, delay |-> 5, backoff |-> 2, has_callback |-> FALSE]

\* the decorated function exists and has not been called
RetryIdle(cfg) ==
    /\ r_cfg = cfg
    /\ r_pc = "idle"
    /\ remaining_tries = 0
    /\ next_delay = 0
    /\ last_exception = NoError
    /\ r_attempts = <<>>
    /\ r_sleeps = <<>>
    /\ r_callbacks = <<>>
    /\ r_result = NoResult
    /\ r_calls = 0

---------------------------------------------------------------------------
(* Specifications *)

\* lists of level names handed to set_alert_levels: every list of at most
\* MaxLevels distinct names in a fixed order, a list with a repeated name, a
\* list out of order and a list with an unsupported name
LevelLists ==
    { s \in SeqsUpTo(LevelNames, MaxLevels) :
        \A i \in 1..Len(s), j \in 1..Len(s) :
            i < j => \E a, b \in 1..4 :
                a < b /\ s[i] = <<"SUCCESS", "WARNING", "FAILURE", "CRITICAL">>[a]
                      /\ s[j] = <<"SUCCESS", "WARNING", "FAILURE", "CRITICAL">>[b] }
    \cup { <<"WARNING", "WARNING">>, <<"FAILURE", "SUCCESS">>,
           <<"FAILURE", "CRITICAL">> }

InitRetry ==
    /\ Constructed(TRUE, TRUE)
    /\ \E cfg \in RetryConfigs : RetryIdle(cfg)

SetLevelsStep ==
    \E n \in SystemNames, levels \in LevelLists : SetAlertLevels(n, levels)

SendAlertStep ==
    \E level \in LevelNames, d \in Details, env \in Environments :
        SendAlert(level, d, env)

RunStartStep == \E env \in Environments, env2 \in Environments : RunStart(env, env2)

BodyReturnStep == \E env \in Environments, env2 \in Environments : BodyReturn(env, env2)

BodyRaiseStep == \E e \in BodyErrors, env \in Environments : BodyRaise(e, env)

BodyExitStep == \E code \in BodyExitCodes : BodyExit(code)

\* the alert interface used on its own: pc stays NOT_STARTED
NextAlerts ==
    \/ SetLevelsStep
    \/ SendAlertStep

InitAlerts ==
    /\ \E has_bi_alerts \in BOOLEAN, has_slack \in BOOLEAN :
          Constructed(has_bi_alerts, has_slack)
    /\ RetryIdle(DefaultRetryConfig)

SpecAlerts == InitAlerts /\ [][NextAlerts]_vars

\* a run of the job, with the monitored levels set before it or by the body
NextRun ==
    \/ SetLevelsStep
    \/ RunStartStep
    \/ BodyReturnStep
    \/ BodyRaiseStep
    \/ BodyExitStep
    \/ BodyInterrupt

SpecRun == InitAlerts /\ [][NextRun]_vars

\* a job that never calls set_alert_levels: every channel keeps the monitored
\* levels its constructor set
NextDefaults ==
    \/ SendAlertStep
    \/ RunStartStep
    \/ BodyReturnStep
    \/ BodyRaiseStep
    \/ BodyExitStep
    \/ BodyInterrupt

SpecDefaults == InitAlerts /\ [][NextDefaults]_vars

\* calls of a function decorated with retry
NextRetry ==
    \/ RetryCall
    \/ \E v \in OperationResults : AttemptReturns(v)
    \/ \E e \in OperationErrors : AttemptRaisesMatching(e)
    \/ \E e \in OperationErrors : AttemptRaisesOther(e)

SpecRetry == InitRetry /\ [][NextRetry]_vars

---------------------------------------------------------------------------
(* Claims about the alert channels and the router *)

\* the number of delivery calls a dispatch made to the channel of that name
CallsTo(calls, name) == Cardinality({i \in 1..Len(calls) : calls[i].channel = name})

\* C1: a dispatch whose level a channel does not monitor, or does not
\* support, makes no delivery call to that channel; a dispatch whose level no
\* channel supports makes no delivery call at all and returns normally.
C1_FilteredLevelNotDelivered ==
    /\ \A i \in 1..Len(last.filter) :
          ~(last.filter[i].supports /\ last.filter[i].monitors) =>
              CallsTo(last.d.calls, last.filter[i].name) = 0
    /\ (\A i \in 1..Len(last.filter) : ~last.filter[i].supports) =>
          last.d.calls = <<>> /\ last.d.raised = NoError

\* a SUCCESS alert went to the database channel and not to the Slack channel,
\* which did not monitor SUCCESS
C1_Witness ==
    /\ last.d.head.level = "SUCCESS"
    /\ CallsTo(last.d.calls, "bi_alerts") = 1
    /\ CallsTo(last.d.calls, "slack") = 0
    /\ \E i \in 1..Len(last.filter) :
          last.filter[i].name = "slack" /\ ~last.filter[i].monitors

\* the channel's filter let the level of the last dispatch through
Passed(i) == last.filter[i].supports /\ last.filter[i].monitors

\* a channel registered before the i-th raised in the last dispatch
EarlierRaised(i) ==
    \E j \in 1..(i - 1) : \E k \in 1..Len(last.d.calls) :
        /\ last.d.calls[k].channel = last.filter[j].name
        /\ last.d.calls[k].did.raised # NoError

\* C2 as stated: every channel whose filter lets the level through gets
\* exactly one delivery call in the dispatch.
C2_ExactlyOneDeliveryPerChannel ==
    \A i \in 1..Len(last.filter) :
        Passed(i) => CallsTo(last.d.calls, last.filter[i].name) = 1

\* C2 amended: a channel whose filter lets the level through gets exactly one
\* delivery call in the dispatch, unless a channel registered before it raised
\* a delivery error in that dispatch, and then it gets none.
C2_OneDeliveryUnlessEarlierRaised ==
    \A i \in 1..Len(last.filter) :
        Passed(i) => CallsTo(last.d.calls, last.filter[i].name) =
                        IF EarlierRaised(i) THEN 0 ELSE 1

\* a FAILURE alert was delivered once to each of the two channels
C2_Witness ==
    /\ last.d.head.level = "FAILURE"
    /\ Len(last.d.calls) = 2
    /\ CallsTo(last.d.calls, "bi_alerts") = 1
    /\ CallsTo(last.d.calls, "slack") = 1
    /\ last.d.raised = NoError

\* C3: every channel's monitored levels are among its supported levels, and
\* they are the levels of the last list given to set_monitored_levels that
\* the channel supports.
C3_MonitoredWithinSupported ==
    \A i \in 1..Len(alert_systems) :
        /\ Range(alert_systems[i].monitored_levels) \subseteq Range(alert_systems[i].levels)
        /\ Range(alert_systems[i].monitored_levels) =
              Range(alert_systems[i].requested) \cap Range(alert_systems[i].levels)

\* set_monitored_levels was given a list with an unsupported name and
\* dropped it
C3_Witness ==
    \E i \in 1..Len(alert_systems) :
        /\ alert_systems[i].requested = <<"FAILURE", "CRITICAL">>
        /\ alert_systems[i].monitored_levels = <<"FAILURE">>

---------------------------------------------------------------------------
(* Claims about the retry decorator *)

\* the attempt raised an error of a type given to the decorator
MatchingFailure(a) == a.kind = "raised" /\ a.error.kind \in exceptions_to_retry

\* the attempt raised an error of another type
OtherFailure(a) == a.kind = "raised" /\ a.error.kind \notin exceptions_to_retry

\* the call is over and every attempt it made raised a matching error
Exhausted ==
    /\ r_pc = "done"
    /\ \A i \in 1..Len(r_attempts) : MatchingFailure(r_attempts[i])

\* C4: when every attempt raises a matching error, f is attempted exactly
\* tries times and there is one sleep after every failed attempt, the last
\* included, of delay, delay*backoff, delay*backoff^2, ... in that order.
C4_ExhaustedAttemptsAndSleeps ==
    Exhausted =>
        /\ Len(r_attempts) = r_cfg.tries
        /\ r_sleeps = [i \in 1..r_cfg.tries |->
                          r_cfg.delay * Pow(r_cfg.backoff, i - 1)]

\* tries=3, delay=1, backoff=2: three failed attempts and sleeps of 1, 2, 4
C4_Witness ==
    /\ Exhausted
    /\ r_cfg.tries = 3 /\ r_cfg.delay = 1 /\ r_cfg.backoff = 2
    /\ Len(r_attempts) = 3
    /\ r_sleeps = <<1, 2, 4>>

\* C5 as stated: with tries=3 and a callback, three matching failures invoke
\* the callback exactly twice.
C5_CallbackInvokedTwice ==
    (Exhausted /\ r_cfg.tries = 3 /\ r_cfg.has_callback) =>
        Len(r_callbacks) = 2

\* C5 amended: with a callback, a call whose attempts all raise a matching
\* error invokes the callback once after every failed attempt, the last
\* included (three times for tries=3): the k-th invocation comes after the
\* k-th attempt and before the k-th sleep, so none comes before the first
\* attempt.
C5_CallbackAfterEveryFailure ==
    (Exhausted /\ r_cfg.has_callback) =>
        /\ Len(r_callbacks) = r_cfg.tries
        /\ \A k \in 1..Len(r_callbacks) :
              r_callbacks[k].attempts = k /\ r_callbacks[k].sleeps = k - 1

\* tries=3 with a callback: three failed attempts, three invocations
C5_Witness ==
    /\ Exhausted
    /\ r_cfg.tries = 3 /\ r_cfg.has_callback
    /\ Len(r_attempts) = 3
    /\ Len(r_callbacks) = 3
    /\ r_callbacks[3].attempts = 3

\* C6: when all tries attempts raise matching errors, f_retry raises the
\* error of the last attempt itself.
C6_RaisesLastError ==
    (Exhausted /\ r_cfg.tries >= 1) =>
        r_result = [kind |-> "raised", value |-> "",
                    error |-> r_attempts[Len(r_attempts)].error]

\* the attempts raised different matching errors and the last one came out
C6_Witness ==
    /\ Exhausted
    /\ Len(r_attempts) = 3
    /\ r_attempts[2].error # r_attempts[3].error
    /\ r_result.kind = "raised"
    /\ r_result.error = r_attempts[3].error

\* C7: an attempt that raises a non-matching error is the last attempt of
\* the call; the error leaves f_retry as it is, and that failure is followed
\* by no callback and no sleep: only the matching failures before it were.
C7_OtherErrorPropagatesAtOnce ==
    \A i \in 1..Len(r_attempts) :
        OtherFailure(r_attempts[i]) =>
            /\ i = Len(r_attempts)
            /\ r_pc = "done"
            /\ r_result = [kind |-> "raised", value |-> "",
                           error |-> r_attempts[i].error]
            /\ Len(r_sleeps) = i - 1
            /\ Len(r_callbacks) = IF r_cfg.has_callback THEN i - 1 ELSE 0

\* a non-matching error on the second attempt, after one matching failure
C7_Witness ==
    /\ r_pc = "done"
    /\ Len(r_attempts) = 2
    /\ MatchingFailure(r_attempts[1])
    /\ OtherFailure(r_attempts[2])
    /\ Len(r_sleeps) = 1
    /\ r_cfg.has_callback

\* C8: an attempt that returns is the last attempt of the call; f_retry
\* returns its value after k attempts and k-1 sleeps, and nothing follows.
C8_ReturnsFirstSuccess ==
    \A k \in 1..Len(r_attempts) :
        r_attempts[k].kind = "returned" =>
            /\ k = Len(r_attempts)
            /\ k <= r_cfg.tries
            /\ r_pc = "done"
            /\ r_result = [kind |-> "returned", value |-> r_attempts[k].value,
                           error |-> NoError]
            /\ \A j \in 1..(k - 1) : MatchingFailure(r_attempts[j])
            /\ Len(r_sleeps) = k - 1
            /\ Len(r_callbacks) = IF r_cfg.has_callback THEN k - 1 ELSE 0

\* success on the third and last attempt
C8_Witness ==
    /\ r_pc = "done"
    /\ r_cfg.tries = 3
    /\ Len(r_attempts) = 3
    /\ r_attempts[3].kind = "returned"
    /\ r_result.kind = "returned"
    /\ Len(r_sleeps) = 2

---------------------------------------------------------------------------
(* Claims about CronBase.run *)

\* the dispatch was made with that title and level
IsEvent(d, title, level) == d.head.title = title /\ d.head.level = level

HasItem(dict, key, value) ==
    \E i \in 1..Len(dict.fields) : dict.fields[i] = <<key, value>>

\* the detail is the diagnostic payload of the error
IsPayloadOf(detail, error) ==
    /\ detail.tag = "dict"
    /\ HasItem(detail, "type", error.kind)
    /\ HasItem(detail, "value", error.message)
    /\ HasItem(detail, "host", Host)
    /\ HasItem(detail, "os", Os)
    /\ detail.hasTb /\ detail.tb # <<>>

\* C10 as stated: a run whose body raises an error dispatches START
\* (SUCCESS) and a FAILURE event that carries the error's kind and message,
\* and exits with code 1.
C10_FailedRunTwoEventsExitOne ==
    body.state = "raised" =>
        /\ Len(events) = 2
        /\ IsEvent(events[1], "Job START", "SUCCESS")
        /\ events[2].head.level = "FAILURE"
        /\ IsPayloadOf(events[2].head.detail, body.error)
        /\ exit_status = <<1>>

\* C10 amended: a run whose body raises an error dispatches exactly START
\* (SUCCESS) and a FAILURE event that carries the error's kind and message
\* with host, os and stack frames; it exits with code 1 when no channel
\* delivery error is raised while FAILURE is dispatched, and otherwise that
\* delivery error leaves run and no exit code is set.
C10_FailedRunUnlessFailureAlertFails ==
    body.state = "raised" =>
        /\ Len(events) = 2
        /\ IsEvent(events[1], "Job START", "SUCCESS")
        /\ events[2].head.level = "FAILURE"
        /\ IsPayloadOf(events[2].head.detail, body.error)
        /\ IF events[2].raised = NoError
           THEN pc = "FAILED" /\ exit_status = <<1>>
           ELSE exit_status = <<>> /\ run_raised = events[2].raised

\* the body raised CronException("boom"); FAILURE reached both channels and
\* the exit code is 1
C10_Witness ==
    /\ body = [state |-> "raised", error |-> [kind |-> "CronException", message |-> "boom"]]
    /\ Len(events) = 2
    /\ Len(events[2].calls) = 2
    /\ events[2].raised = NoError
    /\ exit_status = <<1>>

---------------------------------------------------------------------------
(* C11: the outcomes of a run *)

\* the run has ended: the process exited or an error left run
Ended == pc \notin {"NOT_STARTED", "RUNNING"}

Undisturbed(dispatches, b) ==
    /\ \A n \in 1..Len(dispatches) : dispatches[n].raised = NoError
    /\ b.state \notin {"exited", "interrupted"}

---------------------------------------------------------------------------
(* C12: order of the deliveries of a dispatch and the first delivery error *)

\* the place of the channel in the registration order at the last dispatch
Pos(name) == CHOOSE i \in 1..Len(last.filter) : last.filter[i].name = name

\* C12: the delivery calls of a dispatch are made in registration order; when
\* a delivery raises, it is the last call of the dispatch: every channel
\* registered before it whose filter lets the level through has had its call,
\* no channel registered after it is called, and the dispatch raises that
\* very error to its caller.
C12_RegistrationOrderUntilFirstError ==
    LET calls == last.d.calls
    IN  /\ \A k \in 1..Len(calls) : \A l \in 1..Len(calls) :
              k < l => Pos(calls[k].channel) < Pos(calls[l].channel)
        /\ \A k \in 1..Len(calls) :
              calls[k].did.raised # NoError =>
                  /\ k = Len(calls)
                  /\ \A j \in 1..Len(last.filter) :
                        /\ (j < Pos(calls[k].channel) /\ Passed(j)) =>
                              CallsTo(calls, last.filter[j].name) = 1
                        /\ j > Pos(calls[k].channel) =>
                              CallsTo(calls, last.filter[j].name) = 0
                  /\ last.d.raised = calls[k].did.raised
        /\ (\A k \in 1..Len(calls) : calls[k].did.raised = NoError) =>
              last.d.raised = NoError

\* the database channel, registered first, raised: the Slack channel, whose
\* filter let the level through, was not called and the caller got the error
C12_Witness ==
    /\ Len(last.filter) = 2
    /\ Passed(1) /\ Passed(2)
    /\ Len(last.d.calls) = 1
    /\ last.d.calls[1].channel = last.filter[1].name
    /\ last.d.calls[1].did.raised = ConnectError
    /\ last.d.raised = ConnectError

---------------------------------------------------------------------------
(* C13: the detail a channel is given is a string *)

\* C13: in every dispatch each delivery call is given a str: the detail
\* itself when the detail is a str, and otherwise, for None and for a dict,
\* the JSON text that json.loads turns back into the detail.
C13_ChannelsReceiveStrings ==
    \A k \in 1..Len(last.d.calls) :
        LET given == last.d.calls[k].additional_data
            detail == last.d.head.detail
        IN  /\ isinstance_str(given)
            /\ isinstance_str(detail) => given = detail
            /\ ~isinstance_str(detail) =>
                  json_valid(given) /\ json_loads(given) = detail

\* a dict with a traceback was dispatched and the Slack channel was given its
\* JSON text
C13_Witness ==
    \E k \in 1..Len(last.d.calls) :
        /\ last.d.head.detail.tag = "dict"
        /\ last.d.head.detail.hasTb
        /\ last.d.calls[k].channel = "slack"
        /\ isinstance_str(last.d.calls[k].additional_data)
        /\ json_loads(last.d.calls[k].additional_data) = last.d.head.detail

---------------------------------------------------------------------------
(* C14: the monitored levels of the default configuration *)

\* a channel of the class is registered
HasChannel(class) ==
    \E i \in 1..Len(alert_systems) : alert_systems[i].class = class

\* the dispatch made one delivery call to the database channel, if there is
\* one
DatabaseDelivered(d) ==
    HasChannel("DataLoopAlertSystem") => CallsTo(d.calls, "bi_alerts") = 1

\* the dispatch made one delivery call to the Slack channel, if there is one,
\* unless the database delivery, made before it, raised
SlackDelivered(d) ==
    HasChannel("SlackAlertSystem") =>
        CallsTo(d.calls, "slack") =
            IF \E k \in 1..Len(d.calls) : /\ d.calls[k].channel = "bi_alerts"
                                          /\ d.calls[k].did.raised # NoError
            THEN 0 ELSE 1

\* the monitored levels the constructors leave the channels with
DefaultMonitored ==
    \A i \in 1..Len(alert_systems) :
        /\ alert_systems[i].class = "DataLoopAlertSystem" =>
              Range(alert_systems[i].monitored_levels) =
                  {"SUCCESS", "WARNING", "FAILURE"}
        /\ alert_systems[i].class = "SlackAlertSystem" =>
              Range(alert_systems[i].monitored_levels) = {"WARNING", "FAILURE"}

\* a SUCCESS dispatch is delivered to the database channel and not to the
\* Slack channel
SuccessToDatabaseOnly(d) ==
    d.head.level = "SUCCESS" =>
        DatabaseDelivered(d) /\ CallsTo(d.calls, "slack") = 0

\* C14 as stated: when set_alert_levels is never called, the database
\* channel monitors SUCCESS, WARNING and FAILURE and the Slack channel WARNING
\* and FAILURE only; so START and FINAL are delivered to the database channel
\* and never to the Slack channel, and a FAILURE event is delivered to both.
C14_FailureDeliveredByBoth ==
    /\ DefaultMonitored
    /\ \A n \in 1..Len(events) :
          /\ SuccessToDatabaseOnly(events[n])
          /\ events[n].head.level = "FAILURE" =>
                /\ DatabaseDelivered(events[n])
                /\ HasChannel("SlackAlertSystem") =>
                      CallsTo(events[n].calls, "slack") = 1

\* C14 amended: the same monitored levels and the same deliveries of START
\* and FINAL; a FAILURE event is delivered to the database channel, and to
\* the Slack channel unless the database delivery, made before it, raised an
\* error, and then the Slack channel is not called. Ad hoc SUCCESS and
\* FAILURE alerts are delivered as the events of a run are.
C14_DefaultMonitoredLevels ==
    /\ DefaultMonitored
    /\ \A n \in 1..Len(events) :
          /\ events[n].head.level \in {"SUCCESS", "FAILURE"}
          /\ SuccessToDatabaseOnly(events[n])
          /\ events[n].head.level = "FAILURE" =>
                DatabaseDelivered(events[n]) /\ SlackDelivered(events[n])
    /\ SuccessToDatabaseOnly(last.d)
    /\ last.d.head.level = "FAILURE" =>
          DatabaseDelivered(last.d) /\ SlackDelivered(last.d)

\* a run with both channels whose body raised: START went to the database
\* channel only and the FAILURE event to both
C14_Witness ==
    /\ HasChannel("DataLoopAlertSystem") /\ HasChannel("SlackAlertSystem")
    /\ Len(events) = 2
    /\ IsEvent(events[1], "Job START", "SUCCESS")
    /\ CallsTo(events[1].calls, "bi_alerts") = 1
    /\ CallsTo(events[1].calls, "slack") = 0
    /\ events[2].head.level = "FAILURE"
    /\ CallsTo(events[2].calls, "bi_alerts") = 1
    /\ CallsTo(events[2].calls, "slack") = 1

---------------------------------------------------------------------------
(* C15: the Slack message of a detail with a traceback *)

\* the titles of the fields of a message, in order
Titles(msg) == [i \in 1..Len(msg.fields) |-> msg.fields[i].title]

\* the keys of the dict other than traceback, in order
KeysOf(dict) == [i \in 1..Len(dict.fields) |-> dict.fields[i][1]]

\* the message has a field with the title and the value
HasField(msg, title, value) ==
    \E i \in 1..Len(msg.fields) :
        msg.fields[i].title = title /\ msg.fields[i].value = value

\* the delivery calls of the last dispatch made to the Slack channel
SlackCalls ==
    {k \in 1..Len(last.d.calls) : last.d.calls[k].channel = "slack"}

\* C15: a Slack delivery of a dict that holds a traceback list of two lines
\* and other keys posts one message: its fields are source, level, env, then
\* one field per key other than traceback, with the key's value; no field is
\* titled traceback; its text is the two traceback lines joined by a newline
\* between two code fences.
C15_TracebackMessage ==
    \A k \in SlackCalls :
        LET detail == last.d.head.detail
            did == last.d.calls[k].did
        IN  (detail.tag = "dict" /\ detail.hasTb /\ Len(detail.tb) = 2) =>
                /\ Len(did.posts) = 1
                /\ Titles(did.posts[1]) = <<"source", "level", "env">> \o KeysOf(detail)
                /\ HasField(did.posts[1], "source", JobClass)
                /\ HasField(did.posts[1], "level", last.d.head.level)
                /\ HasField(did.posts[1], "env", EnvName)
                /\ \A i \in 1..Len(detail.fields) :
                      HasField(did.posts[1], detail.fields[i][1], detail.fields[i][2])
                /\ ~InSeq("traceback", Titles(did.posts[1]))
                /\ did.posts[1].has_text
                /\ did.posts[1].text =
                      CodeFence \o detail.tb[1] \o "\n" \o detail.tb[2] \o CodeFence

\* the Slack channel posted the message of {"foo": "bar", "traceback": ["l1",
\* "l2"]}: four fields, the last one foo = bar, and the two lines as text
C15_Witness ==
    \E k \in SlackCalls :
        /\ last.d.head.detail = PyDict(<< <<"foo", "bar">> >>, TRUE, <<"l1", "l2">>)
        /\ Len(last.d.calls[k].did.posts) = 1
        /\ Titles(last.d.calls[k].did.posts[1]) = <<"source", "level", "env", "foo">>
        /\ HasField(last.d.calls[k].did.posts[1], "foo", "bar")
        /\ last.d.calls[k].did.posts[1].text = "~~~l1\nl2~~~"

---------------------------------------------------------------------------
(* C16: the row a database delivery inserts *)

\* the delivery calls of the last dispatch made to the database channel
DatabaseCalls ==
    {k \in 1..Len(last.d.calls) : last.d.calls[k].channel = "bi_alerts"}

\* the detail of the last dispatch as CronBase.send_alert serializes it
Serialized(detail) ==
    IF isinstance_str(detail) THEN detail ELSE json_dumps(detail)

\* C16: a database delivery that returns has inserted exactly one row: its
\* status is 0 for SUCCESS, 1 for WARNING and 2 for FAILURE, its message is
\* the title the channel was given, its additional data is the serialized
\* detail, and source and env are the job's class and environment; a
\* delivery that raises has inserted no row.
C16_OneRowWithStatusCode ==
    \A k \in DatabaseCalls :
        LET call == last.d.calls[k]
        IN  IF call.did.raised = NoError
            THEN /\ Len(call.did.rows) = 1
                 /\ call.level = "SUCCESS" => call.did.rows[1].status = 0
                 /\ call.level = "WARNING" => call.did.rows[1].status = 1
                 /\ call.level = "FAILURE" => call.did.rows[1].status = 2
                 /\ call.did.rows[1].status \in {0, 1, 2}
                 /\ call.did.rows[1].err_msg = call.title
                 /\ call.title = build_descriptive \o ": " \o last.d.head.title
                 /\ call.did.rows[1].err_additional = Serialized(last.d.head.detail)
                 /\ call.did.rows[1].source = JobClass
                 /\ call.did.rows[1].env = EnvName
            ELSE call.did.rows = <<>>

\* a WARNING alert with the detail {"foo": "bar"} was inserted as one row of
\* status 1 that holds the JSON text of the detail
C16_Witness ==
    \E k \in DatabaseCalls :
        /\ last.d.head.level = "WARNING"
        /\ last.d.head.detail = PyDict(<< <<"foo", "bar">> >>, FALSE, <<>>)
        /\ Len(last.d.calls[k].did.rows) = 1
        /\ last.d.calls[k].did.rows[1].status = 1
        /\ json_loads(last.d.calls[k].did.rows[1].err_additional) = last.d.head.detail

---------------------------------------------------------------------------
(* C17: what set_alert_levels changes *)

\* what a step set_alert_levels(alert_system, monitored_levels) leaves alone
\* and what it sets
SetAlertLevelsFrame(alert_system, monitored_levels) ==
    /\ ~IsRegistered(alert_systems, alert_system) => alert_systems' = alert_systems
    /\ Len(alert_systems') = Len(alert_systems)
    /\ \A i \in 1..Len(alert_systems) :
          /\ alert_systems'[i].name = alert_systems[i].name
          /\ alert_systems'[i].class = alert_systems[i].class
          /\ alert_systems'[i].env_name = alert_systems[i].env_name
          /\ alert_systems'[i].levels = alert_systems[i].levels
          /\ IF alert_systems[i].name = alert_system
             THEN Range(alert_systems'[i].monitored_levels) =
                      Range(monitored_levels) \cap Range(alert_systems[i].levels)
             ELSE alert_systems'[i] = alert_systems[i]
    /\ UNCHANGED <<last, pc, events, body, exit_status, run_raised, db_held>>

\* C17: set_alert_levels(name, levels) changes nothing when no channel is
\* registered under the name; otherwise it replaces the monitored levels of
\* that channel only: the other channels, every channel's supported levels,
\* and the registered names and their order stay as they were.
C17_SetAlertLevelsChangesOneChannel ==
    [][\A n \in SystemNames, levels \in LevelLists :
          SetAlertLevels(n, levels) => SetAlertLevelsFrame(n, levels)]_vars

\* the Slack channel was set to monitor SUCCESS only; the database channel,
\* registered before it, is as its constructor left it
C17_Witness ==
    /\ Len(alert_systems) = 2
    /\ alert_systems[1] = DataLoopAlertSystem_init("bi_alerts", EnvName)
    /\ alert_systems[2].name = "slack"
    /\ alert_systems[2].requested = <<"SUCCESS">>
    /\ alert_systems[2].monitored_levels = <<"SUCCESS">>
    /\ alert_systems[2].levels = DefaultLevels

---------------------------------------------------------------------------
(* C18: the Slack message of a dict, with or without a traceback *)

\* C18 as stated: a Slack delivery of a dict that is not empty posts one
\* message whose fields after source, level and env are the keys of the dict
\* other than traceback; the message has the text block exactly when the dict
\* has the key traceback; so a dict without traceback, such as {"foo":
\* "bar"}, is posted and the delivery raises no error of its own.
C18_StructuredDetailPosted ==
    \A k \in SlackCalls :
        LET detail == last.d.head.detail
            did == last.d.calls[k].did
        IN  (detail.tag = "dict" /\ Truthy(detail)) =>
                /\ Len(did.posts) = 1
                /\ Titles(did.posts[1]) = <<"source", "level", "env">> \o KeysOf(detail)
                /\ did.posts[1].has_text <=> detail.hasTb
                /\ did.raised.kind \in {"", "CronException"}

---------------------------------------------------------------------------
(* C19: one outbound attempt per delivery; the errors of a delivery *)

\* how many operations of the kind the delivery made
Attempts(did, op) == Cardinality({i \in 1..Len(did.io) : did.io[i].op = op})

\* C19: a delivery call makes at most one outbound attempt of each kind: a
\* Slack delivery at most one POST and no database operation, a database
\* delivery at most one connect and one INSERT and no POST. A POST answered
\* with a status other than 200 makes the delivery raise CronException, one
\* answered with 200 lets it return; an error raised by the connect or by the
\* INSERT ends the delivery and is the error the delivery raises.
C19_OneAttemptAndErrorsPropagate ==
    \A k \in 1..Len(last.d.calls) :
        LET call == last.d.calls[k]
            did == call.did
        IN  /\ Attempts(did, "post") <= 1
            /\ Attempts(did, "connect") <= 1
            /\ Attempts(did, "insert") <= 1
            /\ Attempts(did, "post") = Len(did.posts)
            /\ Len(did.rows) <= Attempts(did, "insert")
            /\ call.channel = "slack" => Attempts(did, "post") = Len(did.io)
            /\ call.channel = "bi_alerts" => Attempts(did, "post") = 0
            /\ \A i \in 1..Len(did.io) :
                  /\ did.io[i].op = "post" =>
                        IF did.io[i].status = 200
                        THEN did.raised = NoError
                        ELSE did.raised =
                                 Error("CronException", "Failure sending Slack Alert.")
                  /\ did.io[i].error # NoError =>
                        i = Len(did.io) /\ did.raised = did.io[i].error
                  /\ (did.io[i].op # "post" /\ i = Len(did.io)
                         /\ did.io[i].error = NoError) => did.raised = NoError

\* the endpoint answered the one POST of a Slack delivery with 500 and the
\* delivery raised CronException
C19_Witness ==
    \E k \in SlackCalls :
        /\ Len(last.d.calls[k].did.io) = 1
        /\ last.d.calls[k].did.io[1].op = "post"
        /\ last.d.calls[k].did.io[1].status = 500
        /\ last.d.calls[k].did.raised.kind = "CronException"
        /\ last.d.raised.kind = "CronException"

---------------------------------------------------------------------------
(* C20: the connection of the database channel *)

\* C20 as stated: every database delivery opens one new connection right
\* before its INSERT and uses no connection of an earlier delivery, and once
\* the delivery is over the channel holds no open connection: between
\* deliveries the number of connections held open is zero.
C20_ConnectionScopedToDelivery ==
    /\ \A k \in DatabaseCalls :
          LET io == last.d.calls[k].did.io
          IN  /\ Attempts(last.d.calls[k].did, "connect") = 1
              /\ io[1].op = "connect"
              /\ \A i \in 1..Len(io) :
                    io[i].op = "insert" =>
                        i = 2 /\ io[1].op = "connect" /\ io[1].error = NoError
    /\ ~db_held

---------------------------------------------------------------------------
(* C21: the arguments of the callback and the sleep that follows it *)

\* how many attempts of the call raised a matching error so far
MatchingFailures ==
    Cardinality({i \in 1..Len(r_attempts) : MatchingFailure(r_attempts[i])})

\* C21: the k-th matching failure of a call is followed by one sleep, and,
\* with a callback, by one invocation of it made before that sleep: it is
\* given the error caught, tries - k + 1 as remaining tries and
\* delay * backoff^(k-1) as delay; the k-th sleep lasts that same delay; after
\* it remaining_tries is tries - k and next_delay is delay * backoff^k.
C21_CallbackArgumentsThenSleep ==
    r_pc # "idle" =>
        /\ Len(r_sleeps) = MatchingFailures
        /\ Len(r_callbacks) = IF r_cfg.has_callback THEN MatchingFailures ELSE 0
        /\ \A k \in 1..Len(r_sleeps) :
              /\ MatchingFailure(r_attempts[k])
              /\ r_sleeps[k] = r_cfg.delay * Pow(r_cfg.backoff, k - 1)
        /\ \A k \in 1..Len(r_callbacks) :
              /\ r_callbacks[k].error = r_attempts[k].error
              /\ r_callbacks[k].remaining_tries = r_cfg.tries - k + 1
              /\ r_callbacks[k].next_delay = r_cfg.delay * Pow(r_cfg.backoff, k - 1)
              /\ r_callbacks[k].attempts = k
              /\ r_callbacks[k].sleeps = k - 1
              /\ r_sleeps[k] = r_callbacks[k].next_delay
        /\ remaining_tries = r_cfg.tries - MatchingFailures
        /\ next_delay = r_cfg.delay * Pow(r_cfg.backoff, MatchingFailures)

\* tries=3, delay=5, backoff=2 with a callback: the second matching failure
\* gave the callback 2 remaining tries and a delay of 10, the sleep lasted
\* 10, and then remaining_tries is 1 and next_delay 20
C21_Witness ==
    /\ r_cfg = [tries |-> 3, delay |-> 5, backoff |-> 2, has_callback |-> TRUE]
    /\ r_pc = "loop"
    /\ Len(r_callbacks) = 2
    /\ r_callbacks[2].error = r_attempts[2].error
    /\ r_callbacks[2].remaining_tries = 2
    /\ r_callbacks[2].next_delay = 10
    /\ r_callbacks[2].sleeps = 1
    /\ r_sleeps = <<5, 10>>
    /\ remaining_tries = 1
    /\ next_delay = 20

---------------------------------------------------------------------------
(* C22: the retry state belongs to one call *)

\* C22: every call of the decorated function, the first one and one that
\* follows a call that returned, used up its tries or raised another error,
\* starts with remaining_tries = tries, next_delay = delay and no last
\* exception, whatever the call before left behind.
C22_EachCallStartsAfresh ==
    [][r_calls' # r_calls =>
          /\ r_pc \in {"idle", "done"}
          /\ remaining_tries' = r_cfg.tries
          /\ next_delay' = r_cfg.delay
          /\ last_exception' = NoError
          /\ r_cfg' = r_cfg]_vars

\* the second call of a function decorated with tries=3, delay=5, backoff=2
\* has started: it has 3 remaining tries and a next delay of 5
C22_Witness ==
    /\ r_calls = 2
    /\ r_pc = "loop"
    /\ r_attempts = <<>>
    /\ r_cfg.tries = 3 /\ r_cfg.delay = 5 /\ r_cfg.backoff = 2
    /\ remaining_tries = 3
    /\ next_delay = 5

---------------------------------------------------------------------------
(* C23: a delivery error while START is dispatched *)

\* a delivery raised while the START event of the run was dispatched
StartRaised ==
    /\ Len(events) >= 1
    /\ IsEvent(events[1], "Job START", "SUCCESS")
    /\ events[1].raised # NoError

\* the n-th event of the run is the FAILURE event built from the error
IsFailureEventOf(n, error) ==
    /\ Len(events) >= n
    /\ IsEvent(events[n], "Failure during Job", "FAILURE")
    /\ IsPayloadOf(events[n].head.detail, error)

\* C23 as stated: when a delivery raises while START is dispatched, the body
\* is never executed, a FAILURE event built from the delivery error is
\* dispatched, and the process exits with code 1.
C23_StartErrorExitsOne ==
    StartRaised =>
        /\ body.state = "not_run"
        /\ Len(events) = 2
        /\ IsFailureEventOf(2, events[1].raised)
        /\ exit_status = <<1>>

\* C23 amended: when a delivery raises while START is dispatched, the body is
\* never executed and a FAILURE event built from the delivery error is
\* dispatched, the second and last event of the run; the process exits with
\* code 1 when no delivery raises while FAILURE is dispatched, and otherwise
\* that error leaves run and no exit code is set.
C23_StartErrorSkipsBody ==
    StartRaised =>
        /\ body.state = "not_run"
        /\ Len(events) = 2
        /\ IsFailureEventOf(2, events[1].raised)
        /\ IF events[2].raised = NoError
           THEN pc = "FAILED" /\ exit_status = <<1>> /\ run_raised = NoError
           ELSE pc = "ESCAPED" /\ exit_status = <<>>
                /\ run_raised = events[2].raised

\* the database refused the connection for START; the FAILURE event that
\* tells of the OperationalError was delivered and the exit code is 1
C23_Witness ==
    /\ StartRaised
    /\ events[1].raised = ConnectError
    /\ body.state = "not_run"
    /\ IsFailureEventOf(2, ConnectError)
    /\ events[2].raised = NoError
    /\ events[2].calls # <<>>
    /\ exit_status = <<1>>

---------------------------------------------------------------------------
(* C24: a delivery error while FINAL is dispatched *)

\* the body returned and a delivery raised while FINAL was dispatched
FinalRaised ==
    /\ body.state = "returned"
    /\ Len(events) >= 2
    /\ IsEvent(events[2], "Job FINAL", "SUCCESS")
    /\ events[2].raised # NoError

\* C24 as stated: when the body returns and a delivery raises while FINAL is
\* dispatched, a FAILURE event is dispatched after FINAL, three dispatches in
\* all, and the process exits with code 1.
C24_FinalErrorExitsOne ==
    FinalRaised =>
        /\ Len(events) = 3
        /\ IsEvent(events[1], "Job START", "SUCCESS")
        /\ IsFailureEventOf(3, events[2].raised)
        /\ exit_status = <<1>>

\* C24 amended: when the body returns and a delivery raises while FINAL is
\* dispatched, a FAILURE event built from that error is dispatched after
\* FINAL, three dispatches in all, and the exit code is never 0: it is 1 when
\* no delivery raises while FAILURE is dispatched, and otherwise that error
\* leaves run and no exit code is set.
C24_FinalErrorIsJobFailure ==
    FinalRaised =>
        /\ Len(events) = 3
        /\ IsEvent(events[1], "Job START", "SUCCESS")
        /\ events[1].raised = NoError
        /\ IsFailureEventOf(3, events[2].raised)
        /\ exit_status # <<0>>
        /\ IF events[3].raised = NoError
           THEN pc = "FAILED" /\ exit_status = <<1>> /\ run_raised = NoError
           ELSE pc = "ESCAPED" /\ exit_status = <<>>
                /\ run_raised = events[3].raised

\* the body returned, the INSERT of FINAL failed, the FAILURE event that
\* tells of the ProgrammingError was delivered and the exit code is 1
C24_Witness ==
    /\ FinalRaised
    /\ events[2].raised = ExecuteError
    /\ Len(events) = 3
    /\ IsFailureEventOf(3, ExecuteError)
    /\ events[3].raised = NoError
    /\ events[3].calls # <<>>
    /\ pc = "FAILED"
    /\ exit_status = <<1>>

---------------------------------------------------------------------------
(* C25: a delivery error while FAILURE is dispatched *)

\* the k-th delivery call of the n-th event of the run raised
CallRaised(n, k) == events[n].calls[k].did.raised # NoError

\* the place of the channel in the registration order
Registered(name) ==
    CHOOSE i \in 1..Len(alert_systems) : alert_systems[i].name = name

\* C25: when a delivery raises while run dispatches the FAILURE event, that
\* error leaves run as it is: the FAILURE event is the last event of the run,
\* no exit code is set, and no channel registered after the failing one gets
\* a delivery call for the FAILURE event.
C25_FailureErrorEscapesRun ==
    \A n \in 1..Len(events) : \A k \in 1..Len(events[n].calls) :
        (events[n].head.level = "FAILURE" /\ CallRaised(n, k)) =>
            /\ n = Len(events)
            /\ k = Len(events[n].calls)
            /\ pc = "ESCAPED"
            /\ exit_status = <<>>
            /\ run_raised = events[n].calls[k].did.raised
            /\ \A j \in 1..Len(alert_systems) :
                  j > Registered(events[n].calls[k].channel) =>
                      CallsTo(events[n].calls, alert_systems[j].name) = 0

\* the body raised, the database channel, registered first, refused the
\* FAILURE event, and the Slack channel, which monitors FAILURE, was not
\* called; the OperationalError left run and there is no exit code
C25_Witness ==
    /\ body.state = "raised"
    /\ Len(events) = 2
    /\ events[2].head.level = "FAILURE"
    /\ Len(events[2].calls) = 1
    /\ events[2].calls[1].channel = "bi_alerts"
    /\ events[2].calls[1].did.raised = ConnectError
    /\ Len(alert_systems) = 2
    /\ InSeq("FAILURE", alert_systems[2].monitored_levels)
    /\ pc = "ESCAPED"
    /\ run_raised = ConnectError
    /\ exit_status = <<>>

---------------------------------------------------------------------------
(* C26: SystemExit and KeyboardInterrupt raised by the body *)

\* C26: when the body raises SystemExit or KeyboardInterrupt, the except
\* clause of run does not catch it: START stays the only event of the run,
\* with neither FINAL nor FAILURE after it; after SystemExit(code) the exit
\* code is the code the body asked for, whether 0, 1 or another; a
\* KeyboardInterrupt leaves run and run sets no exit code.
C26_ExitRequestNotCaught ==
    body.state \in {"exited", "interrupted"} =>
        /\ Len(events) = 1
        /\ IsEvent(events[1], "Job START", "SUCCESS")
        /\ body.state = "exited" =>
              /\ pc = "EXITED"
              /\ \E code \in BodyExitCodes :
                    /\ body.error = Error("SystemExit", ToString(code))
                    /\ exit_status = <<code>>
              /\ run_raised = NoError
        /\ body.state = "interrupted" =>
              /\ pc = "ESCAPED"
              /\ run_raised = Error("KeyboardInterrupt", "")
              /\ exit_status = <<>>

\* the body raised SystemExit(3) after START was delivered: no other event
\* was dispatched and the exit code is 3
C26_Witness ==
    /\ body = [state |-> "exited", error |-> Error("SystemExit", "3")]
    /\ Len(events) = 1
    /\ events[1].calls # <<>>
    /\ pc = "EXITED"
    /\ exit_status = <<3>>

====
